---- MODULE Spec2Model ----
(***************************************************************************)
(* Model of src/app.py ("Data Sweeper"): a Streamlit script that is re-run *)
(* from top to bottom on every user interaction.  Each run reloads every   *)
(* uploaded file, applies the cleaning operation whose button was clicked  *)
(* in that very interaction, projects to the selected columns and, when    *)
(* the convert button was clicked, serialises the table for download.      *)
(*                                                                         *)
(* Three specifications share the module:                                  *)
(*   Spec      the session: uploads and widget interactions, one script    *)
(*             run per interaction;                                        *)
(*   FnSpec    the dataframe operations of process_file applied to         *)
(*             generated tables;                                           *)
(*   NameSpec  the export file name computed for generated file names.     *)
(***************************************************************************)
EXTENDS Integers, Sequences, FiniteSets, TLC

VARIABLES
    uploaded_files,   \* Spec: the files held by st.file_uploader, in upload order
    widgets,          \* Spec: Streamlit widget state, keyed by the file name in the label
    run,              \* Spec: what the last script run did (per file outcome, messages)
    ops,              \* Spec: history, per file name, of the cleaning buttons clicked
    steps,            \* Spec: number of widget interactions so far
    df,               \* FnSpec: the working DataFrame
    last,             \* FnSpec: the last operation applied and the table it was applied to
    fname,            \* NameSpec: file.name
    ctype,            \* NameSpec: conversion_type
    outname           \* NameSpec: file_name handed to st.download_button

vars == <<uploaded_files, widgets, run, ops, steps, df, last, fname, ctype, outname>>

sessVars == <<uploaded_files, widgets, run, ops, steps>>
fnVars == <<df, last>>
nameVars == <<fname, ctype, outname>>

----------------------------------------------------------------------------
(* Bounds *)

MaxRows == 3
MaxStem == 2
MaxFiles == 2
MaxSteps == 3

----------------------------------------------------------------------------
(* Cells.  A number is the exact fraction n/d in lowest terms. *)

RECURSIVE GCD(_, _)
GCD(a, b) == IF b = 0 THEN a ELSE GCD(b, a % b)

NA == [t |-> "na", n |-> 0, d |-> 1, s |-> ""]

Num(n, d) == LET g == GCD(n, d) IN [t |-> "num", n |-> n \div g, d |-> d \div g, s |-> ""]

Str(s) == [t |-> "str", n |-> 0, d |-> 1, s |-> s]

\* str(x) of a cell held in an object column: a number becomes its text,
\* a missing value becomes the text "nan".
AsText(c) ==
    IF c.t = "num" THEN [t |-> "str", n |-> c.n, d |-> c.d, s |-> "repr"]
    ELSE IF c.t = "na" THEN Str("nan")
    ELSE c

IsNA(c) == c.t = "na"

Range(f) == {f[i] : i \in DOMAIN f}

Column(t, j) == [i \in 1..Len(t.rows) |-> t.rows[i][j]]

IndexOf(seq, x) == CHOOSE j \in 1..Len(seq) : seq[j] = x

SeqsUpTo(S, n) == UNION {[1..k -> S] : k \in 0..n}

----------------------------------------------------------------------------
(* Loading: pd.read_csv / pd.read_excel, convert_dtypes, astype(str). *)

\* What the parser hands over for one column.  A CSV column that holds any
\* text is text throughout (its numbers were text in the file); a workbook
\* column keeps each cell's own type.
ParsedColumn(fmt, cells) ==
    IF fmt = "csv" /\ \E i \in DOMAIN cells : cells[i].t = "str"
    THEN [i \in DOMAIN cells |-> IF cells[i].t = "num" THEN AsText(cells[i]) ELSE cells[i]]
    ELSE cells

\* The cells of column j of parsed content, top to bottom.
RECURSIVE RawColumn(_, _, _)
RawColumn(rows, j, n) == IF n = 0 THEN <<>> ELSE Append(RawColumn(rows, j, n - 1), rows[n][j])

\* df.convert_dtypes(): the nullable dtype inferred for a parsed column.
InferDtype(cells) ==
    LET present == {c \in Range(cells) : ~IsNA(c)} IN
    IF \A c \in present : c.t = "num"
    THEN IF \A c \in present : c.d = 1 THEN "Int64" ELSE "Float64"
    ELSE IF \A c \in present : c.t = "str" THEN "string"
    ELSE "object"

\* astype(str) on a column of dtype object; any other column is left alone.
CoerceAs(dtype, cells) ==
    IF dtype = "object" THEN [i \in DOMAIN cells |-> AsText(cells[i])] ELSE cells

\* The loop over select_dtypes(include=["object"]), lines 82-83.
CoerceColumn(cells) == CoerceAs(InferDtype(cells), cells)

\* A dataframe from its column names, dtypes and columns.
FrameOf(cols, nr, dtype, columns) ==
    [cols  |-> cols,
     dtype |-> dtype,
     rows  |-> [i \in 1..nr |-> [j \in DOMAIN cols |-> columns[j][i]]]]

\* The first n columns as the parser hands them over.
RECURSIVE ParsedColumns(_, _, _)
ParsedColumns(fmt, rows, n) ==
    IF n = 0 THEN <<>>
    ELSE Append(ParsedColumns(fmt, rows, n - 1), ParsedColumn(fmt, RawColumn(rows, n, Len(rows))))

\* lines 82-83 on the first n columns.
RECURSIVE CoerceColumns(_, _)
CoerceColumns(parsed, n) ==
    IF n = 0 THEN <<>> ELSE Append(CoerceColumns(parsed, n - 1), CoerceColumn(parsed[n]))

\* lines 81-83 on the parsed columns.
TypedFrame(cols, nr, parsed) ==
    FrameOf(cols, nr, [j \in DOMAIN cols |-> InferDtype(parsed[j])],
            CoerceColumns(parsed, Len(parsed)))

\* The dataframe built from parsed content (cols, rows of cells).
MakeFrame(fmt, content) ==
    TypedFrame(content.cols, Len(content.rows),
               ParsedColumns(fmt, content.rows, Len(content.cols)))

IsNumeric(dt) == dt \in {"Int64", "Float64"}

----------------------------------------------------------------------------
(* df.drop_duplicates(inplace=True): keep the first occurrence of each row. *)

\* A deduplication that deletes while scanning and so skips the row that
\* follows each deleted row.
RECURSIVE DropSkipping(_, _)
DropSkipping(rows, i) ==
    IF i > Len(rows) THEN rows
    ELSE IF \E j \in 1..(i - 1) : rows[j] = rows[i]
         THEN DropSkipping(SubSeq(rows, 1, i - 1) \o SubSeq(rows, i + 1, Len(rows)), i + 1)
         ELSE DropSkipping(rows, i + 1)

DropDuplicatesSkipping(t) == [t EXCEPT !.rows = DropSkipping(t.rows, 1)]

RECURSIVE KeepFirst(_, _)
KeepFirst(rows, i) ==
    IF i = 0 THEN <<>>
    ELSE IF \E j \in 1..(i - 1) : rows[j] = rows[i]
         THEN KeepFirst(rows, i - 1)
         ELSE Append(KeepFirst(rows, i - 1), rows[i])

DropDuplicates(t) == [t EXCEPT !.rows = KeepFirst(t.rows, Len(t.rows))]

----------------------------------------------------------------------------
(* df[numeric_cols].fillna(df[numeric_cols].mean()) *)

AddFrac(a, b) == Num(a.n * b.d + b.n * a.d, a.d * b.d)

RECURSIVE SumCells(_, _)
SumCells(cells, i) ==
    IF i = 0 THEN Num(0, 1)
    ELSE IF IsNA(cells[i]) THEN SumCells(cells, i - 1)
         ELSE AddFrac(SumCells(cells, i - 1), cells[i])

\* Series.mean() with skipna: NA when nothing is present.
DivFrac(a, k) == IF k = 0 THEN NA ELSE Num(a.n, a.d * k)

Mean(cells) ==
    DivFrac(SumCells(cells, Len(cells)), Cardinality({i \in DOMAIN cells : ~IsNA(cells[i])}))

\* The masked integer array refuses a fill value that is not a whole number
\* (TypeError: Invalid value for dtype Int64); nothing is set when no cell
\* is missing or when the fill value is itself NA.
FillRaises(dt, cells) ==
    /\ dt = "Int64"
    /\ \E i \in DOMAIN cells : IsNA(cells[i])
    /\ Mean(cells).t = "num"
    /\ Mean(cells).d # 1

\* The assignment of line 118 is not reached when a column's fill raises.
FillFails(t) == \E j \in DOMAIN t.cols : FillRaises(t.dtype[j], Column(t, j))

\* The rows with every missing cell of a numeric column set to fill[j].
FilledRows(t, fill) ==
    [i \in DOMAIN t.rows |-> [j \in DOMAIN t.cols |->
        IF IsNumeric(t.dtype[j]) /\ IsNA(t.rows[i][j]) THEN fill[j] ELSE t.rows[i][j]]]

\* df[numeric_cols].mean(): a mean per numeric column.
ColumnMeans(t) ==
    [j \in DOMAIN t.cols |-> IF IsNumeric(t.dtype[j]) THEN Mean(Column(t, j)) ELSE NA]

FillMissing(t) ==
    IF FillFails(t) THEN [ok |-> FALSE, df |-> t]
    ELSE [ok |-> TRUE, df |-> [t EXCEPT !.rows = FilledRows(t, ColumnMeans(t))]]

----------------------------------------------------------------------------
(* df = df[selected_columns] *)

\* A projection that builds the result row by row from the chosen cells and
\* so has no rows left when no column is chosen.
SelectColumnsLosingRows(t, names) ==
    LET idx(j) == IndexOf(t.cols, names[j]) IN
    [cols  |-> names,
     dtype |-> [j \in 1..Len(names) |-> t.dtype[idx(j)]],
     rows  |-> IF names = <<>> THEN <<>>
               ELSE [i \in 1..Len(t.rows) |-> [j \in 1..Len(names) |-> t.rows[i][idx(j)]]]]

SelectColumns(t, names) ==
    LET idx(j) == IndexOf(t.cols, names[j]) IN
    [cols  |-> names,
     dtype |-> [j \in 1..Len(names) |-> t.dtype[idx(j)]],
     rows  |-> [i \in 1..Len(t.rows) |-> [j \in 1..Len(names) |-> t.rows[i][idx(j)]]]]

\* Ordered selections st.multiselect can return: distinct options, in the
\* order the user picked them.
Selections(cols) ==
    {q \in SeqsUpTo(Range(cols), Len(cols)) : \A i, j \in DOMAIN q : i # j => q[i] # q[j]}

NoFrame == [cols |-> <<>>, dtype |-> <<>>, rows |-> <<>>]

\* FnSpec's record of an operation, before any was applied.
NoOperation == [op |-> "load", before |-> NoFrame, ok |-> TRUE, removed |-> 0, names |-> <<>>]

----------------------------------------------------------------------------
(* Strings are sequences of characters. *)

Upper == <<"C", "S", "V", "X", "L", "E">>
LowerOf == <<"c", "s", "v", "x", "l", "e">>

LowerCh(c) == IF \E k \in DOMAIN Upper : Upper[k] = c THEN LowerOf[IndexOf(Upper, c)] ELSE c

\* str.lower()
Lower(str) == [i \in DOMAIN str |-> LowerCh(str[i])]

\* str.rfind(ch), 1-based, 0 when absent
RFind(str, ch) ==
    IF \E i \in DOMAIN str : str[i] = ch
    THEN CHOOSE i \in DOMAIN str : str[i] = ch /\ \A k \in DOMAIN str : k > i => str[k] # ch
    ELSE 0

\* os.path.splitext(p)[-1]: from the last dot of the last path component,
\* unless that component has nothing but dots before it.
SplitExt(p) ==
    LET sepIndex == RFind(p, "/")
        dotIndex == RFind(p, ".")
    IN IF dotIndex > sepIndex /\ \E k \in (sepIndex + 1)..(dotIndex - 1) : p[k] # "."
       THEN SubSeq(p, dotIndex, Len(p))
       ELSE <<>>

RECURSIVE Interleave(_, _)
Interleave(str, new) ==
    IF str = <<>> THEN new ELSE new \o <<Head(str)>> \o Interleave(Tail(str), new)

\* str.replace(old, new): every non-overlapping occurrence, left to right;
\* an empty old matches before every character and at the end.
RECURSIVE Replace(_, _, _)
Replace(str, old, new) ==
    IF old = <<>> THEN Interleave(str, new)
    ELSE IF Len(str) < Len(old) THEN str
    ELSE IF SubSeq(str, 1, Len(old)) = old
         THEN new \o Replace(SubSeq(str, Len(old) + 1, Len(str)), old, new)
         ELSE <<Head(str)>> \o Replace(Tail(str), old, new)

CSV == <<"C", "S", "V">>
Excel == <<"E", "x", "c", "e", "l">>

DotCsv == <<".", "c", "s", "v">>
DotXlsx == <<".", "x", "l", "s", "x">>

\* line 71
FileExtension(name) == Lower(SplitExt(name))

\* line 141
ExportName(name, conversion_type) ==
    Replace(name, FileExtension(name), <<".">> \o Lower(conversion_type))

\* line 142
MimeType(conversion_type) == IF conversion_type = CSV THEN "text/csv" ELSE "spreadsheetml.sheet"

----------------------------------------------------------------------------
(* The script: process_file and the loop over uploaded_files. *)

\* pd.read_csv(file) / pd.read_excel(file, engine="openpyxl"), lines 75-83.
\* The branch is chosen by the name; the parser then accepts or rejects the
\* bytes, whatever the name.
LoadFile(file) ==
    LET parser == IF FileExtension(file.name) = DotCsv THEN "csv" ELSE "xlsx" IN
    IF file.fmt = parser
    THEN [ok |-> TRUE, df |-> MakeFrame(parser, file.content)]
    ELSE [ok |-> FALSE, df |-> NoFrame]

(* The files a user can upload in this model. *)

A_CSV == <<"a", ".", "c", "s", "v">>
B_CSV == <<"b", ".", "c", "s", "v">>
DATA_TXT == <<"d", ".", "t", "x", "t">>

X == Str("x")

Catalog ==
    { \* a float column with a duplicated row and a missing value
      [name |-> A_CSV, fmt |-> "csv",
       content |-> [cols |-> <<"n", "s">>,
                    rows |-> << <<Num(0, 1), X>>, <<Num(0, 1), X>>,
                                <<Num(1, 2), X>>, <<NA, X>> >>]],
      \* an integer column whose mean is not whole, and a text cell that
      \* holds a control character
      [name |-> B_CSV, fmt |-> "csv",
       content |-> [cols |-> <<"n", "s">>,
                    rows |-> << <<Num(0, 1), Str("ctl")>>, <<Num(1, 1), X>>, <<NA, X>> >>]],
      \* an unsupported name over plain text
      [name |-> DATA_TXT, fmt |-> "csv",
       content |-> [cols |-> <<"s">>, rows |-> << <<X>> >>]],
      \* an unsupported name over workbook bytes
      [name |-> DATA_TXT, fmt |-> "xlsx",
       content |-> [cols |-> <<"n">>, rows |-> << <<Num(1, 1)>>, <<Num(1, 1)>> >>]] }

\* Every run loads every file afresh; what a file loads as never changes.
Loaded == [f \in Catalog |-> LoadFile(f)]

\* openpyxl refuses a string that holds a control character.
ExcelWritable(t) ==
    \A i \in DOMAIN t.rows : \A j \in DOMAIN t.rows[i] :
        ~(t.rows[i][j].t = "str" /\ t.rows[i][j].s = "ctl")

NoArtifact == [file_name |-> <<>>, mime |-> "", data |-> NoFrame]

Outcome(status, error, reached, means, table, artifact) ==
    [status |-> status, error |-> error, reached |-> reached, means |-> means,
     table |-> table, artifact |-> artifact]

NotRun == Outcome("notrun", <<>>, 0, <<>>, NoFrame, NoArtifact)

\* lines 108-119: the cleaning step.  Of the two buttons only the one
\* pressed in this interaction is true, and only when the checkbox is on.
CleaningStep(t, w, pressed) ==
    IF w.cleaning /\ pressed = "dedup"
    THEN [ok |-> TRUE, means |-> <<>>, df |-> DropDuplicates(t)]
    ELSE IF w.cleaning /\ pressed = "fill"
    THEN [ok |-> ~FillFails(t), means |-> ColumnMeans(t), df |-> FillMissing(t).df]
    ELSE [ok |-> TRUE, means |-> <<>>, df |-> t]

\* lines 137-156: the export of the projected table.
ExportStep(file, w, convert, means, projected) ==
    IF convert /\ w.conversion_type = Excel /\ ~ExcelWritable(projected)
    THEN Outcome("exporterror", <<>>, 2, means, projected, NoArtifact)
    ELSE Outcome("ok", <<>>, 2, means, projected,
                 IF convert
                 THEN [file_name |-> ExportName(file.name, w.conversion_type),
                       mime |-> MimeType(w.conversion_type),
                       data |-> projected]
                 ELSE NoArtifact)

\* lines 103-156: what follows a successful load.
AfterCleaning(file, w, convert, cleaned) ==
    IF ~cleaned.ok
    THEN Outcome("fillerror", <<>>, 1, cleaned.means, NoFrame, NoArtifact)
    ELSE ExportStep(file, w, convert, cleaned.means, SelectColumns(cleaned.df, w.selected))

\* lines 73-156: what follows the load.
AfterLoad(file, w, pressed, registered, loaded) ==
    IF ~loaded.ok
    THEN Outcome("loaderror", file.name, 0, <<>>, NoFrame, NoArtifact)
    ELSE IF file.name \in registered
    THEN Outcome("duplicatewidget", <<>>, 0, <<>>, NoFrame, NoArtifact)
    ELSE AfterCleaning(file, w, pressed = "convert", CleaningStep(loaded.df, w, pressed))

\* process_file(file), lines 70-156.  w is the state of the widgets whose
\* label carries file.name, click the button pressed in this interaction,
\* registered the names whose widgets this run has already created.
\* In an outcome, reached tells how far the widgets were created: 0 none,
\* 1 up to the cleaning buttons, 2 all.
ProcessFile(file, w, click, registered) ==
    AfterLoad(file, w, IF click.name = file.name THEN click.kind ELSE "none",
              registered, Loaded[file])

\* An exception that leaves process_file ends the script run.
Uncaught == {"duplicatewidget", "fillerror", "exporterror"}

RECURSIVE ProcessFrom(_, _, _, _, _)

\* The loop after file i came out as out: an exception ends it.
LoopAfter(files, w, click, i, registered, out) ==
    IF out.status \in Uncaught
    THEN <<out>> \o [k \in 1..(Len(files) - i) |-> NotRun]
    ELSE <<out>> \o ProcessFrom(files, w, click, i + 1,
                        IF out.reached > 0 THEN registered \cup {files[i].name}
                        ELSE registered)

\* lines 159-161: the loop, from file i on.
ProcessFrom(files, w, click, i, registered) ==
    IF i > Len(files) THEN <<>>
    ELSE LoopAfter(files, w, click, i, registered,
                   ProcessFile(files[i], w[files[i].name], click, registered))

\* A final message that is shown only when every file loaded.
SuccessOnlyIfAllLoaded(results) == \A i \in DOMAIN results : results[i].status = "ok"

\* line 163 is reached unless an exception ended the run.
SuccessShown(results) == \A i \in DOMAIN results : results[i].status \notin Uncaught

RunRecord(click, results) ==
    [click |-> click, results |-> results, success |-> SuccessShown(results)]

\* One run of the script.
Script(files, w, click) == RunRecord(click, ProcessFrom(files, w, click, 1, {}))

----------------------------------------------------------------------------
(* Spec: the session.  Every interaction re-runs the script. *)

Names(files) == {files[i].name : i \in DOMAIN files}

NoClick == [kind |-> "none", name |-> <<>>]
Click(kind, name) == [kind |-> kind, name |-> name]

\* Widget defaults: checkboxes off, every column chosen, radio on "CSV".
DefaultWidgets(file) ==
    [summary |-> FALSE, cleaning |-> FALSE, viz |-> FALSE,
     selected |-> Loaded[file].df.cols, conversion_type |-> CSV]

\* The first file of that name: the one whose widgets the run creates.
FirstNamed(files, name) == files[CHOOSE i \in DOMAIN files :
                                    files[i].name = name /\ \A k \in 1..(i - 1) : files[k].name # name]

\* How far the last run came in creating the widgets labelled with name.
Reached(name) ==
    IF \E i \in DOMAIN run.results : uploaded_files[i].name = name /\ run.results[i].reached > 0
    THEN run.results[CHOOSE i \in DOMAIN run.results :
                        uploaded_files[i].name = name /\ run.results[i].reached > 0].reached
    ELSE 0

Init ==
    /\ uploaded_files = <<>>
    /\ widgets = [n \in {} |-> 0]
    /\ run = Script(<<>>, widgets, NoClick)
    /\ ops = [n \in {} |-> <<>>]
    /\ steps = 0
    /\ df = NoFrame /\ last = NoOperation
    /\ fname = <<>> /\ ctype = CSV /\ outname = <<>>

\* line 66: one more file is uploaded
Upload ==
    /\ Len(uploaded_files) < MaxFiles
    /\ \E f \in Catalog :
         LET files == Append(uploaded_files, f)
             w == IF f.name \in DOMAIN widgets THEN widgets
                  ELSE [n \in DOMAIN widgets \cup {f.name} |->
                          IF n = f.name THEN DefaultWidgets(f) ELSE widgets[n]]
         IN /\ uploaded_files' = files
            /\ widgets' = w
            /\ ops' = [n \in DOMAIN w |-> IF n \in DOMAIN ops THEN ops[n] ELSE <<>>]
            /\ run' = Script(files, w, NoClick)
    /\ UNCHANGED <<steps, fnVars, nameVars>>

\* A widget labelled with name changes to the state w_name, or one of its
\* buttons is pressed; the script runs again.
Interact(name, w_name, click) ==
    /\ steps < MaxSteps
    /\ steps' = steps + 1
    /\ widgets' = [widgets EXCEPT ![name] = w_name]
    /\ run' = Script(uploaded_files, widgets', click)
    /\ ops' = IF click.kind \in {"dedup", "fill"}
              THEN [ops EXCEPT ![name] = Append(@, click.kind)]
              ELSE ops
    /\ UNCHANGED <<uploaded_files, fnVars, nameVars>>

\* line 103
ToggleSummary ==
    \E name \in Names(uploaded_files) :
        /\ Reached(name) >= 1
        /\ Interact(name, [widgets[name] EXCEPT !.summary = ~@], NoClick)

\* line 108
ToggleCleaning ==
    \E name \in Names(uploaded_files) :
        /\ Reached(name) >= 1
        /\ Interact(name, [widgets[name] EXCEPT !.cleaning = ~@], NoClick)

\* line 111
ClickRemoveDuplicates ==
    \E name \in Names(uploaded_files) :
        /\ Reached(name) >= 1 /\ widgets[name].cleaning
        /\ Interact(name, widgets[name], Click("dedup", name))

\* line 116
ClickFillMissing ==
    \E name \in Names(uploaded_files) :
        /\ Reached(name) >= 1 /\ widgets[name].cleaning
        /\ Interact(name, widgets[name], Click("fill", name))

\* line 123
ChooseColumns ==
    \E name \in Names(uploaded_files) :
        /\ Reached(name) = 2
        /\ \E sel \in Selections(Loaded[FirstNamed(uploaded_files, name)].df.cols) :
              /\ sel # widgets[name].selected
              /\ Interact(name, [widgets[name] EXCEPT !.selected = sel], NoClick)

\* line 128
ToggleVisualization ==
    \E name \in Names(uploaded_files) :
        /\ Reached(name) = 2
        /\ Interact(name, [widgets[name] EXCEPT !.viz = ~@], NoClick)

\* line 137
ChooseFormat ==
    \E name \in Names(uploaded_files) :
        /\ Reached(name) = 2
        /\ \E c \in {CSV, Excel} :
              /\ c # widgets[name].conversion_type
              /\ Interact(name, [widgets[name] EXCEPT !.conversion_type = c], NoClick)

\* line 139
ClickConvert ==
    \E name \in Names(uploaded_files) :
        /\ Reached(name) = 2
        /\ Interact(name, widgets[name], Click("convert", name))

Next ==
    \/ Upload
    \/ ToggleSummary
    \/ ToggleCleaning
    \/ ClickRemoveDuplicates
    \/ ClickFillMissing
    \/ ChooseColumns
    \/ ToggleVisualization
    \/ ChooseFormat
    \/ ClickConvert

Spec == Init /\ [][Next]_vars

----------------------------------------------------------------------------
(* Claims about the session (Spec). *)

Files == DOMAIN uploaded_files

Result(i) == run.results[i]

LoadedFrame(i) == Loaded[uploaded_files[i]].df

Front(seq) == SubSeq(seq, 1, Len(seq) - 1)

\* The table after the cleaning operations of a history, applied in order.
RECURSIVE ApplyAll(_, _)
ApplyAll(t, history) ==
    IF history = <<>> THEN t
    ELSE LET before == ApplyAll(t, Front(history)) IN
         IF history[Len(history)] = "dedup" THEN DropDuplicates(before)
         ELSE FillMissing(before).df

\* C1: the table serialised when the convert button fires is the loaded
\* table changed by every cleaning operation triggered for that file in
\* earlier interactions, then projected to the selected columns.
C1_ExportKeepsCleaning ==
    \A i \in Files :
        Result(i).artifact # NoArtifact =>
            Result(i).artifact.data =
                SelectColumns(ApplyAll(LoadedFrame(i), ops[uploaded_files[i].name]),
                              widgets[uploaded_files[i].name].selected)

\* C3: a file whose load or export fails is reported by a message naming
\* it, produces no artifact, and every file after it is still processed.
C3_FailureSkipsOnlyThatFile ==
    \A i \in Files :
        Result(i).status \in {"loaderror", "exporterror"} =>
            /\ Result(i).error = uploaded_files[i].name
            /\ Result(i).artifact = NoArtifact
            /\ \A k \in Files : k > i => Result(k).status # "notrun"

\* C7: a file whose name has neither the .csv nor the .xlsx extension fails
\* to load with a message naming it, whatever its bytes; no table is made
\* and no later step runs for it.
C7_UnsupportedExtensionFails ==
    \A i \in Files :
        (/\ FileExtension(uploaded_files[i].name) \notin {DotCsv, DotXlsx}
         /\ Result(i).status # "notrun") =>
            /\ Result(i).status = "loaderror"
            /\ Result(i).error = uploaded_files[i].name
            /\ Result(i).table = NoFrame
            /\ Result(i).reached = 0

\* C8: when remove-duplicates was triggered in an earlier interaction, the
\* means used by fill-missing are those of the deduplicated rows.
C8_FillUsesDeduplicatedRows ==
    \A i \in Files :
        LET name == uploaded_files[i].name IN
        (/\ run.click = Click("fill", name)
         /\ Result(i).means # <<>>
         /\ "dedup" \in Range(Front(ops[name]))) =>
            Result(i).means = ColumnMeans(ApplyAll(LoadedFrame(i), Front(ops[name])))

\* C9: a file's resulting table and export artifact are those of the same
\* file processed alone under the same controls: no other uploaded file,
\* not even one of the same name, changes them.
C9_FilesIndependent ==
    \A i \in Files :
        LET alone == Script(<<uploaded_files[i]>>, widgets, run.click).results[1] IN
        /\ Result(i).table = alone.table
        /\ Result(i).artifact = alone.artifact

\* C10: every run that no uncaught exception ends emits the final success
\* message, with no file uploaded and also after a reported load error.
C10_FinalMessageUnconditional ==
    (\A i \in Files : Result(i).status \in {"ok", "loaderror"}) => run.success

\* C10 witness: a run reported a load error, processed a later file and
\* emitted the final message.
C10_Witness ==
    /\ run.success
    /\ \E i, k \in Files : i < k /\ Result(i).status = "loaderror" /\ Result(k).status = "ok"

----------------------------------------------------------------------------
(* FnSpec: the dataframe operations of process_file on generated tables. *)

CellsA == {NA, Num(0, 1), Num(1, 1), Num(1, 2)}
CellsB == {Str("x"), Num(1, 1)}

GenContents ==
    {[cols |-> <<"a", "b">>, rows |-> r] :
        r \in SeqsUpTo({<<x, y>> : x \in CellsA, y \in CellsB}, MaxRows)}

InitFn ==
    /\ \E fmt \in {"csv", "xlsx"}, c \in GenContents : df = MakeFrame(fmt, c)
    /\ last = NoOperation
    /\ uploaded_files = <<>> /\ widgets = <<>> /\ run = <<>> /\ ops = <<>> /\ steps = 0
    /\ fname = <<>> /\ ctype = CSV /\ outname = <<>>

\* lines 112-114
FnRemoveDuplicates ==
    LET initial_count == Len(df.rows)
        out == DropDuplicates(df)
    IN /\ df' = out
       /\ last' = [op |-> "dedup", before |-> df, ok |-> TRUE,
                   removed |-> initial_count - Len(out.rows), names |-> <<>>]
       /\ UNCHANGED <<sessVars, nameVars>>

\* lines 117-119
FnFillMissing ==
    LET out == FillMissing(df) IN
    /\ df' = out.df
    /\ last' = [op |-> "fill", before |-> df, ok |-> out.ok, removed |-> 0, names |-> <<>>]
    /\ UNCHANGED <<sessVars, nameVars>>

\* lines 123-124
FnSelectColumns ==
    \E names \in Selections(df.cols) :
        /\ df' = SelectColumns(df, names)
        /\ last' = [op |-> "select", before |-> df, ok |-> TRUE, removed |-> 0, names |-> names]
        /\ UNCHANGED <<sessVars, nameVars>>

NextFn == FnRemoveDuplicates \/ FnFillMissing \/ FnSelectColumns

FnSpec == InitFn /\ [][NextFn]_vars

----------------------------------------------------------------------------
(* Claims about the dataframe operations (FnSpec). *)

HasDuplicate(rows) == \E i, j \in DOMAIN rows : i < j /\ rows[i] = rows[j]

\* C4: remove-duplicates is idempotent: applied to its own output it
\* reports zero removed rows and leaves the rows and their order unchanged.
C4_DedupIdempotent ==
    last.op = "dedup" =>
        LET again == DropDuplicates(df) IN
        /\ again = df
        /\ Len(df.rows) - Len(again.rows) = 0
        /\ ~HasDuplicate(df.rows)

\* C4 witness: remove-duplicates has just removed more than one row.
C4_Witness == last.op = "dedup" /\ last.removed >= 2

NumericCols(t) == {j \in 1..Len(t.cols) : IsNumeric(t.dtype[j])}

Present(cells) == {i \in DOMAIN cells : ~IsNA(cells[i])}

\* C5: after fill-missing every numeric column that had a non-missing value
\* has no missing value left, each filled cell holds the mean of the
\* column's non-missing values, and an entirely missing numeric column is
\* unchanged; no error is raised.
C5_FillLeavesNoMissing ==
    last.op = "fill" =>
        /\ last.ok
        /\ \A j \in NumericCols(last.before) :
              LET old == Column(last.before, j)
                  new == Column(df, j)
              IN IF Present(old) = {}
                 THEN new = old
                 ELSE \A i \in DOMAIN old :
                        /\ ~IsNA(new[i])
                        /\ IsNA(old[i]) => new[i] = Mean(old)

\* C6: projection yields exactly the chosen columns, keeps every row in
\* order; choosing all columns is the identity, choosing none leaves zero
\* columns and the original row count.
C6_SelectColumns ==
    last.op = "select" =>
        /\ df.cols = last.names
        /\ Len(df.rows) = Len(last.before.rows)
        /\ \A j \in DOMAIN last.names :
              Column(df, j) = Column(last.before, IndexOf(last.before.cols, last.names[j]))
        /\ last.names = last.before.cols => df = last.before
        /\ last.names = <<>> => \A i \in DOMAIN df.rows : df.rows[i] = <<>>

\* C6 witness: no column was chosen from a table that has rows and columns.
C6_Witness ==
    /\ last.op = "select" /\ last.names = <<>>
    /\ Len(last.before.cols) = 2 /\ Len(last.before.rows) >= 2

----------------------------------------------------------------------------
(* NameSpec: the export file name for generated file names. *)

\* Every spelling of ext in upper and lower case letters.
CaseVariants(ext) ==
    {v \in [DOMAIN ext -> Range(ext) \cup Range(Upper)] : Lower(v) = ext}

StemChars == {"a", "c", "V"}

GenNames ==
    {stem \o ext : stem \in SeqsUpTo(StemChars, MaxStem) \ {<<>>},
                   ext \in CaseVariants(DotCsv) \cup CaseVariants(DotXlsx)}

InitName ==
    /\ fname \in GenNames
    /\ ctype = CSV
    /\ outname = <<>>
    /\ uploaded_files = <<>> /\ widgets = <<>> /\ run = <<>> /\ ops = <<>> /\ steps = 0
    /\ df = NoFrame /\ last = NoOperation

\* line 137: the radio button is changed; the re-run offers no download
NameChooseFormat ==
    /\ \E c \in {CSV, Excel} : c # ctype /\ ctype' = c
    /\ outname' = <<>>
    /\ UNCHANGED <<fname, sessVars, fnVars>>

\* lines 139-156: the convert button is clicked
NameConvert ==
    /\ outname' = ExportName(fname, ctype)
    /\ UNCHANGED <<fname, ctype, sessVars, fnVars>>

NextName == NameChooseFormat \/ NameConvert

NameSpec == InitName /\ [][NextName]_vars

\* The target's canonical extension.
Canonical(conversion_type) == IF conversion_type = CSV THEN DotCsv ELSE DotXlsx

\* The name without its final .csv / .xlsx extension (in any letter case).
OriginalStem(name) ==
    IF Len(name) >= 5 /\ Lower(SubSeq(name, Len(name) - 4, Len(name))) = DotXlsx
    THEN SubSeq(name, 1, Len(name) - 5)
    ELSE SubSeq(name, 1, Len(name) - 4)

\* C2: the export file name is the original name with only its final
\* extension replaced by the target's canonical extension (.csv or .xlsx).
C2_ExportNameCanonical ==
    outname # <<>> => outname = OriginalStem(fname) \o Canonical(ctype)

====
